---- MODULE Spec2Model ----
(***************************************************************************)
(* Model of library/ibmim_installer.py: the Ansible module that installs   *)
(* or uninstalls IBM Installation Manager.  One invocation of run_module   *)
(* is a walk of pc through install() or uninstall(); the filesystem and    *)
(* the text printed by "<dest>/eclipse/tools/imcl version" are the         *)
(* environment.  Text is modelled as sequences of one-character strings,   *)
(* so that the regular expressions of get_version and the substring test   *)
(* of is_installed are computed on characters, as Python computes them     *)
(* (Python 2 semantics: the pipes of subprocess yield str).                *)
(***************************************************************************)
EXTENDS Integers, Sequences, FiniteSets, TLC

VARIABLES
    fs,            \* which paths exist: [dest, imcl, src, logdir -> BOOLEAN]
    imclStdout,    \* what "<dest>/eclipse/tools/imcl version" prints on stdout
    pc,            \* position of the invocation in run_module/install/uninstall
    params,        \* module.params["state"] and module.check_mode
    module_facts,  \* the dict run_module builds and hands to install/uninstall
    version_facts, \* the dict returned by the last call of get_version
    result,        \* how the invocation ended (exit_json, fail_json, exception)
    launched,      \* the external commands launched by this invocation, in order
    stdout_value,  \* stdout captured from the last version query
    probe,         \* what is_installed returned (or raised) in this invocation
    returncode,    \* <<child.returncode>> of the install/uninstall child, if run
    fs0,           \* fs as it was when this invocation started
    prev           \* outcome of the invocation that ended just before, if any

vars ==
    <<fs, imclStdout, pc, params, module_facts, version_facts, stdout_value,
      probe, returncode, result, launched, fs0, prev>>

(***************************************************************************)
(* Text literals of the source and of the version query's output.          *)
(***************************************************************************)
NL ==
    "\n"
VersionPrefix ==
    <<"V", "e", "r", "s", "i", "o", "n", ":", " ">>
InternalVersionPrefix ==
    <<"I", "n", "t", "e", "r", "n", "a", "l", " ", "V", "e", "r", "s", "i", "o", "n", ":", " ">>
ArchitecturePrefix ==
    <<"A", "r", "c", "h", "i", "t", "e", "c", "t", "u", "r", "e", ":", " ">>
BitSuffix ==
    <<"-", "b", "i", "t">>
HeaderPrefix ==
    <<"I", "n", "s", "t", "a", "l", "l", "a", "t", "i", "o", "n", " ", "M", "a", "n", "a", "g", "e", "r">>
InstalledWord ==
    <<"i", "n", "s", "t", "a", "l", "l", "e", "d">>
Digits ==
    {"0", "1", "2", "3", "4", "5", "6", "7", "8", "9"}

\* Lines the version query may print (the RETURN samples of the module).
LineVersion ==
    <<"V", "e", "r", "s", "i", "o", "n", ":", " ", "1", ".", "8", ".", "0">>
LineInternal ==
    <<"I", "n", "t", "e", "r", "n", "a", "l", " ", "V", "e", "r", "s", "i", "o", "n", ":", " ", "1", ".", "8", ".", "0", ".", "2", "0", "1", "4", "0", "9", "0", "2", "_", "1", "5", "0", "3">>
LineArch64 ==
    <<"A", "r", "c", "h", "i", "t", "e", "c", "t", "u", "r", "e", ":", " ", "6", "4", "-", "b", "i", "t">>
LineArchX86 ==
    <<"A", "r", "c", "h", "i", "t", "e", "c", "t", "u", "r", "e", ":", " ", "x", "8", "6", "_", "6", "4">>
LineHeaderInstalled ==
    <<"I", "n", "s", "t", "a", "l", "l", "a", "t", "i", "o", "n", " ", "M", "a", "n", "a", "g", "e", "r", " ", "(", "i", "n", "s", "t", "a", "l", "l", "e", "d", ")">>
LineHeaderPlain ==
    <<"I", "n", "s", "t", "a", "l", "l", "a", "t", "i", "o", "n", " ", "M", "a", "n", "a", "g", "e", "r">>
Str_1_8_0 ==
    <<"1", ".", "8", ".", "0">>
Str_internal ==
    <<"1", ".", "8", ".", "0", ".", "2", "0", "1", "4", "0", "9", "0", "2", "_", "1", "5", "0", "3">>
Str_64bit ==
    <<"6", "4", "-", "b", "i", "t">>

(***************************************************************************)
(* Regular expressions and substring search, on characters.                *)
(***************************************************************************)
\* s has pat at position p.
StartsAt(s, p, pat) ==
    /\ p >= 1
    /\ p + Len(pat) - 1 <= Len(s)
    /\ \A i \in 1..Len(pat) : s[p + i - 1] = pat[i]

\* Python's "sub in s".
Contains(s, sub) ==
    \E p \in 1..(Len(s) + 1) : StartsAt(s, p, sub)

\* Last position of the line holding position p ("." does not match a newline).
LineEnd(s, p) ==
    LET nls == {q \in p..Len(s) : s[q] = NL}
    IN  IF nls = {} THEN Len(s)
        ELSE (CHOOSE q \in nls : \A r \in nls : q <= r) - 1

Min(S) ==
    CHOOSE x \in S : \A y \in S : x <= y

Max(S) ==
    CHOOSE x \in S : \A y \in S : x >= y

NoMatch ==
    [matched |-> FALSE, group |-> <<>>]

\* re.search(prefix + "([0-9].*)", s): leftmost match, group(1).
SearchDigitRest(prefix, s) ==
    LET n  == Len(prefix)
        ps == {p \in 1..Len(s) :
                 /\ StartsAt(s, p, prefix)
                 /\ p + n <= Len(s)
                 /\ s[p + n] \in Digits}
    IN  IF ps = {} THEN NoMatch
        ELSE LET p == Min(ps)
             IN  [matched |-> TRUE, group |-> SubSeq(s, p + n, LineEnd(s, p + n))]

\* re.search(prefix + "([0-9].*" + suffix + ")", s): leftmost match, the greedy
\* ".*" reaching the last suffix of the line.
SearchDigitRestSuffix(prefix, suffix, s) ==
    LET n     == Len(prefix)
        qs(p) == {q \in (p + n + 1)..LineEnd(s, p + n) : StartsAt(s, q, suffix)}
        ps    == {p \in 1..Len(s) :
                    /\ StartsAt(s, p, prefix)
                    /\ p + n <= Len(s)
                    /\ s[p + n] \in Digits
                    /\ qs(p) # {}}
    IN  IF ps = {} THEN NoMatch
        ELSE LET p == Min(ps)
                 q == Max(qs(p))
             IN  [matched |-> TRUE,
                  group |-> SubSeq(s, p + n, q + Len(suffix) - 1)]

\* re.search(prefix + ".*", s): leftmost match, group(0).
SearchRestOfLine(prefix, s) ==
    LET ps == {p \in 1..Len(s) : StartsAt(s, p, prefix)}
    IN  IF ps = {} THEN NoMatch
        ELSE LET p == Min(ps)
             IN  [matched |-> TRUE, group |-> SubSeq(s, p, LineEnd(s, p))]

(***************************************************************************)
(* Python dicts are functions from their keys; {} is the empty function.   *)
(***************************************************************************)
EmptyDict ==
    << >>

FactKeys ==
    {"im_version", "im_internal_version", "im_arch", "im_header"}

\* get_version (lines 227-239): the dict built from the stdout of the version
\* query.  The four extractions sit in one try block, so the first search
\* that finds nothing (None.group raises AttributeError) skips the rest.
get_version(stdout_text) ==
    LET m1 == SearchDigitRest(VersionPrefix, stdout_text)
        m2 == SearchDigitRest(InternalVersionPrefix, stdout_text)
        m3 == SearchDigitRestSuffix(ArchitecturePrefix, BitSuffix, stdout_text)
        m4 == SearchRestOfLine(HeaderPrefix, stdout_text)
        d1 == ("im_version" :> m1.group) @@ EmptyDict
        d2 == ("im_internal_version" :> m2.group) @@ d1
        d3 == ("im_arch" :> m3.group) @@ d2
        d4 == ("im_header" :> m4.group) @@ d3
    IN  IF ~m1.matched THEN EmptyDict
        ELSE IF ~m2.matched THEN d1
        ELSE IF ~m3.matched THEN d2
        ELSE IF ~m4.matched THEN d3
        ELSE d4


\* is_installed with the substring test inverted.
is_installed_inverted(dest_exists, stdout_text) ==
    IF ~dest_exists
    THEN [queried |-> FALSE, outcome |-> "not_installed", facts |-> EmptyDict]
    ELSE LET facts == get_version(stdout_text)
         IN  [queried |-> TRUE,
              facts   |-> facts,
              outcome |->
                  IF "im_header" \notin DOMAIN facts THEN "KeyError"
                  ELSE IF Contains(facts["im_header"], InstalledWord)
                       THEN "not_installed"
                       ELSE "installed"]

\* is_installed (lines 198-212) given whether dest exists and what the version
\* query prints: whether the query was launched, and the outcome, which is
\* True, False, or the KeyError of get_version(dest)["im_header"].
is_installed(dest_exists, stdout_text) ==
    IF ~dest_exists
    THEN [queried |-> FALSE, outcome |-> "not_installed", facts |-> EmptyDict]
    ELSE LET facts == get_version(stdout_text)
         IN  [queried |-> TRUE,
              facts   |-> facts,
              outcome |->
                  IF "im_header" \notin DOMAIN facts THEN "KeyError"
                  ELSE IF Contains(facts["im_header"], InstalledWord)
                       THEN "installed"
                       ELSE "not_installed"]

\* os.listdir(path) (line 309): OSError when the path does not exist.
os_listdir(path_exists) ==
    IF path_exists THEN "listed" ELSE "OSError"

(***************************************************************************)
(* Parameters (defaults and EXAMPLES of the module) and result objects.    *)
(***************************************************************************)
DestPath ==
    "/opt/IBM/InstallationManager"
SrcPath ==
    "/srv/was/IBMIM"

\* imcl_command of uninstall (line 387).
imcl_command ==
    <<DestPath, "/eclipse/tools/imcl">>

\* module_facts of run_module (lines 426-432).
InitialModuleFacts ==
    [k \in {"changed"} \cup FactKeys |-> IF k = "changed" THEN FALSE ELSE <<>>]

NoResult ==
    [kind |-> "none", changed |-> FALSE, msg |-> <<>>, keys |-> {},
     module_facts |-> EmptyDict, exc |-> "none"]

\* module.exit_json(**kwargs): ends the invocation with a success result.
exit_json(changed, msg, keys, facts) ==
    [kind |-> "exit_json", changed |-> changed, msg |-> msg,
     keys |-> {"changed", "msg"} \cup keys, module_facts |-> facts,
     exc |-> "none"]

\* module.fail_json(**kwargs): ends the invocation with a failure result.
fail_json(msg, keys, facts) ==
    [kind |-> "fail_json", changed |-> FALSE, msg |-> msg,
     keys |-> {"msg", "failed"} \cup keys, module_facts |-> facts,
     exc |-> "none"]

\* An exception nothing catches: the invocation ends with a traceback.
Uncaught(exc) ==
    [kind |-> "exception", changed |-> FALSE, msg |-> <<>>, keys |-> {},
     module_facts |-> EmptyDict, exc |-> exc]

(***************************************************************************)
(* Environment: the filesystem and the output of the version query.        *)
(***************************************************************************)
RECURSIVE Text(_)
\* The lines printed one after the other, each ended by a newline.
Text(lines) ==
    IF lines = <<>> THEN <<>>
    ELSE Head(lines) \o <<NL>> \o Text(Tail(lines))

\* The output of the round-trip scenario: an installed Installation Manager.
InstalledOutput ==
    Text(<<LineVersion, LineInternal, LineArch64, LineHeaderInstalled>>)

\* Outputs the version query may print: each of the lines present or absent,
\* the architecture parseable or not, the header with or without "installed".
VersionOutputs ==
    { Text( (IF v THEN <<LineVersion>> ELSE <<>>)
            \o (IF iv THEN <<LineInternal>> ELSE <<>>)
            \o a \o h ) :
        v \in BOOLEAN, iv \in BOOLEAN,
        a \in {<<>>, <<LineArch64>>, <<LineArchX86>>},
        h \in {<<>>, <<LineHeaderInstalled>>, <<LineHeaderPlain>>} }

\* imcl lives under dest; a missing imcl prints nothing on stdout.
Environments ==
    { e \in [fs : [dest : BOOLEAN, imcl : BOOLEAN, src : BOOLEAN, logdir : BOOLEAN],
             out : VersionOutputs] :
        /\ e.fs.imcl => e.fs.dest
        /\ ~e.fs.imcl => e.out = <<>> }

NoPrev ==
    [state |-> "none", check_mode |-> FALSE, kind |-> "none", changed |-> FALSE]

Range(f) ==
    {f[i] : i \in DOMAIN f}

Init ==
    /\ \E e \in Environments :
          /\ fs = e.fs
          /\ fs0 = e.fs
          /\ imclStdout = e.out
    /\ pc = "idle"
    /\ params = [state |-> "present", check_mode |-> FALSE]
    /\ module_facts = EmptyDict
    /\ version_facts = EmptyDict
    /\ stdout_value = <<>>
    /\ probe = "none"
    /\ returncode = <<>>
    /\ result = NoResult
    /\ launched = <<>>
    /\ prev = NoPrev

(***************************************************************************)
(* One invocation of the module.                                           *)
(***************************************************************************)
Env ==
    <<fs, imclStdout>>

Locals ==
    <<version_facts, stdout_value, probe, returncode>>

\* The invocation ends with result r.
EndWith(r) ==
    /\ result' = r
    /\ pc' = "done"

\* run_module (lines 423-451): build module_facts and dispatch on state.
run_module(state, check_mode) ==
    /\ pc = "idle"
    /\ params' = [state |-> state, check_mode |-> check_mode]
    /\ module_facts' = InitialModuleFacts
    /\ pc' = IF state = "present" THEN "install" ELSE "uninstall"
    /\ fs0' = fs
    /\ UNCHANGED <<Env, Locals, result, launched, prev>>


\* install without the check-mode exit.
install_check_mode_ignored ==
    /\ pc = "install"
    /\ pc' = "install_is_installed"
    /\ UNCHANGED <<Env, Locals, params, module_facts, result, launched, fs0, prev>>

\* install, lines 296-302: check mode exits at once.
install_check_mode ==
    /\ pc = "install"
    /\ IF params.check_mode
       THEN EndWith(exit_json(FALSE,
                <<"IBM Installation Manager where to be installed at ", DestPath>>,
                {}, EmptyDict))
       ELSE /\ pc' = "install_is_installed"
            /\ UNCHANGED result
    /\ UNCHANGED <<Env, Locals, params, module_facts, launched, fs0, prev>>


\* is_installed running the version query once for the key and once for the
\* substring test.
call_is_installed_twice ==
    LET r == is_installed(fs.dest, imclStdout)
    IN  /\ probe' = r.outcome
        /\ version_facts' = IF r.queried THEN r.facts ELSE version_facts
        /\ stdout_value' = IF r.queried THEN imclStdout ELSE stdout_value
        /\ launched' = IF r.queried
                       THEN launched \o <<"version", "version">>
                       ELSE launched

\* The call is_installed(dest) of install (304) and uninstall (390): the
\* version query is launched when dest exists.
call_is_installed ==
    LET r == is_installed(fs.dest, imclStdout)
    IN  /\ probe' = r.outcome
        /\ version_facts' = IF r.queried THEN r.facts ELSE version_facts
        /\ stdout_value' = IF r.queried THEN imclStdout ELSE stdout_value
        /\ launched' = IF r.queried THEN Append(launched, "version") ELSE launched

\* install, lines 304 and 369-374: already installed is a no-op.
install_is_installed ==
    /\ pc = "install_is_installed"
    /\ call_is_installed
    /\ CASE probe' = "KeyError" -> EndWith(Uncaught("KeyError"))
         [] probe' = "installed" ->
                EndWith(exit_json(FALSE,
                    <<"IBM Installation Manager is already installed">>,
                    {"module_facts"}, module_facts))
         [] OTHER -> /\ pc' = "install_src"
                     /\ UNCHANGED result
    /\ UNCHANGED <<Env, returncode, params, module_facts, fs0, prev>>


\* install without the check of src.
install_src_unchecked ==
    /\ pc = "install_src"
    /\ pc' = "install_logdir"
    /\ UNCHANGED <<Env, Locals, params, module_facts, result, launched, fs0, prev>>

\* install, lines 306-307: src must exist.
install_src ==
    /\ pc = "install_src"
    /\ IF ~fs.src
       THEN EndWith(fail_json(<<SrcPath>>, {}, EmptyDict))
       ELSE /\ pc' = "install_logdir"
            /\ UNCHANGED result
    /\ UNCHANGED <<Env, Locals, params, module_facts, launched, fs0, prev>>

\* install, lines 308-310: a missing logdir is listed before it is created.
install_logdir ==
    /\ pc = "install_logdir"
    /\ IF ~fs.logdir
       THEN IF os_listdir(fs.logdir) = "OSError"
            THEN /\ EndWith(Uncaught("OSError"))
                 /\ UNCHANGED fs
            ELSE /\ fs' = [fs EXCEPT !.logdir = TRUE]
                 /\ pc' = "install_popen"
                 /\ UNCHANGED result
       ELSE /\ pc' = "install_popen"
            /\ UNCHANGED <<fs, result>>
    /\ UNCHANGED <<imclStdout, Locals, params, module_facts, launched, fs0, prev>>

\* install, lines 344-357: run "<src>/tools/imcl install ...".  Exit code 0
\* leaves Installation Manager installed at dest; another exit code leaves
\* dest as it was or created without imcl.
install_popen(rc) ==
    /\ pc = "install_popen"
    /\ launched' = Append(launched, "install")
    /\ returncode' = <<rc>>
    /\ IF rc # 0
       THEN /\ EndWith(fail_json(
                    <<"IBM Installation Manager installation failed">>,
                    {"stderr", "stdout", "module_facts"}, module_facts))
            /\ fs' \in {fs, [fs EXCEPT !.dest = TRUE]}
            /\ UNCHANGED imclStdout
       ELSE /\ pc' = "install_get_version"
            /\ fs' = [fs EXCEPT !.dest = TRUE, !.imcl = TRUE]
            /\ imclStdout' = InstalledOutput
            /\ UNCHANGED result
    /\ UNCHANGED <<version_facts, stdout_value, probe, params, module_facts,
                   fs0, prev>>

\* install, lines 361-368: query the version into the local "result", then
\* exit with module_facts.
install_get_version ==
    /\ pc = "install_get_version"
    /\ launched' = Append(launched, "version")
    /\ stdout_value' = imclStdout
    /\ version_facts' = get_version(imclStdout)
    /\ EndWith(exit_json(TRUE,
            <<"IBM Installation Manager installed successfully">>,
            {"stdout", "stderr", "module_facts"}, module_facts))
    /\ UNCHANGED <<Env, probe, returncode, params, module_facts, fs0, prev>>

\* uninstall, lines 380-385: in check mode the message calls the dict
\* module.params, which raises TypeError.
uninstall_check_mode ==
    /\ pc = "uninstall"
    /\ IF params.check_mode
       THEN EndWith(Uncaught("TypeError"))
       ELSE /\ pc' = "uninstall_is_installed"
            /\ UNCHANGED result
    /\ UNCHANGED <<Env, Locals, params, module_facts, launched, fs0, prev>>

\* uninstall, lines 390 and 415-420: not installed is a no-op.
uninstall_is_installed ==
    /\ pc = "uninstall_is_installed"
    /\ call_is_installed
    /\ CASE probe' = "KeyError" -> EndWith(Uncaught("KeyError"))
         [] probe' = "installed" -> /\ pc' = "uninstall_imcl"
                                    /\ UNCHANGED result
         [] OTHER ->
                EndWith(exit_json(FALSE,
                    <<"IBM Installation Manager is not installed">>,
                    {"module_facts"}, module_facts))
    /\ UNCHANGED <<Env, returncode, params, module_facts, fs0, prev>>

\* uninstall, lines 391-392: the imcl executable must exist.
uninstall_imcl ==
    /\ pc = "uninstall_imcl"
    /\ IF ~fs.imcl
       THEN EndWith(fail_json(imcl_command \o <<" does not exist">>, {}, EmptyDict))
       ELSE /\ pc' = "uninstall_popen"
            /\ UNCHANGED result
    /\ UNCHANGED <<Env, Locals, params, module_facts, launched, fs0, prev>>

\* uninstall, lines 393-414: run "<dest>/eclipse/tools/imcl uninstall ...".
\* Exit code 0 leaves dest removed.
uninstall_popen(rc) ==
    /\ pc = "uninstall_popen"
    /\ launched' = Append(launched, "uninstall")
    /\ returncode' = <<rc>>
    /\ IF rc # 0
       THEN /\ EndWith(fail_json(
                    <<"IBM Installation Manager uninstall failed">>,
                    {"stderr", "stdout", "module_facts"}, module_facts))
            /\ UNCHANGED Env
       ELSE /\ EndWith(exit_json(TRUE,
                    <<"IBM Installation Manager uninstalled successfully">>,
                    {"stdout", "module_facts"}, module_facts))
            /\ fs' = [fs EXCEPT !.dest = FALSE, !.imcl = FALSE]
            /\ imclStdout' = <<>>
    /\ UNCHANGED <<version_facts, stdout_value, probe, params, module_facts,
                   fs0, prev>>

\* The process of the invocation is gone; its outcome is what the caller of
\* the next invocation has seen.
Return ==
    /\ pc = "done"
    /\ pc' = "idle"
    /\ prev' = [state |-> params.state, check_mode |-> params.check_mode,
                kind |-> result.kind, changed |-> result.changed]
    /\ result' = NoResult
    /\ launched' = <<>>
    /\ version_facts' = EmptyDict
    /\ stdout_value' = <<>>
    /\ probe' = "none"
    /\ returncode' = <<>>
    /\ module_facts' = EmptyDict
    /\ fs0' = fs
    /\ UNCHANGED <<Env, params>>

\* Between invocations anything else may change the machine.
EnvChange ==
    /\ pc = "idle"
    /\ \E e \in Environments :
          /\ <<e.fs, e.out>> # <<fs, imclStdout>>
          /\ fs' = e.fs
          /\ fs0' = e.fs
          /\ imclStdout' = e.out
    /\ prev' = NoPrev
    /\ UNCHANGED <<pc, params, module_facts, Locals, result, launched>>

ExitCodes ==
    {0, 1}

Next ==
    \/ \E state \in {"present", "absent"}, check_mode \in BOOLEAN :
          run_module(state, check_mode)
    \/ install_check_mode
    \/ install_is_installed
    \/ install_src
    \/ install_logdir
    \/ \E rc \in ExitCodes : install_popen(rc)
    \/ install_get_version
    \/ uninstall_check_mode
    \/ uninstall_is_installed
    \/ uninstall_imcl
    \/ \E rc \in ExitCodes : uninstall_popen(rc)
    \/ Return
    \/ EnvChange

Spec ==
    Init /\ [][Next]_vars

(***************************************************************************)
(* Properties.                                                             *)
(***************************************************************************)
Actions ==
    {"install", "uninstall"}

\* Positions of launched whose command is in cmds.
Launches(cmds) ==
    {i \in DOMAIN launched : launched[i] \in cmds}

NonDryRun(state) ==
    /\ pc # "idle"
    /\ ~params.check_mode
    /\ params.state = state

Finished(state) ==
    /\ pc = "done"
    /\ ~params.check_mode
    /\ params.state = state

NoOp ==
    /\ pc = "done"
    /\ result.kind = "exit_json"
    /\ ~result.changed
    /\ Launches(Actions) = {}

\* C1: a non-dry-run install whose probe reports installed, and a non-dry-run
\* uninstall whose probe reports not installed, end with changed=false and
\* launch no install/uninstall command; an install right after a successful
\* install, and an uninstall right after a successful uninstall, do too.
C1_Idempotence ==
    /\ (NonDryRun("present") /\ probe = "installed") => NoOp
    /\ (NonDryRun("absent") /\ probe = "not_installed") => NoOp
    /\ \A state \in {"present", "absent"} :
          ( /\ Finished(state)
            /\ prev.state = state
            /\ prev.kind = "exit_json"
            /\ prev.changed ) => NoOp

C1_Witness ==
    /\ Finished("present")
    /\ prev.state = "present"
    /\ prev.changed
    /\ probe = "installed"
    /\ launched = <<"version">>
    /\ ~result.changed

\* The probe of this invocation queried an existing dest and read text.
ProbedText(text) ==
    /\ probe # "none"
    /\ fs0.dest
    /\ Launches(Actions) = {}
    /\ stdout_value = text

\* C2: when dest exists and no header line can be extracted from the output of
\* the version query, is_installed does not raise and returns False, so that
\* uninstall ends as a changed=false no-op and nothing ends with an exception.
C2_UnparseableHeaderIsNotInstalled ==
    ( /\ ProbedText(stdout_value)
      /\ ~SearchRestOfLine(HeaderPrefix, stdout_value).matched )
    => /\ probe = "not_installed"
       /\ result.kind # "exception"
       /\ params.state = "absent" => NoOp

\* The module_facts of the round-trip scenario.
ScenarioFacts ==
    [im_version |-> Str_1_8_0, im_internal_version |-> Str_internal,
     im_arch |-> Str_64bit, im_header |-> LineHeaderInstalled]

\* C3: after a successful install the result has changed=true and its
\* module_facts hold the four fields parsed from the version query made
\* after the install.
C3_FactsAfterInstall ==
    ( /\ Finished("present")
      /\ returncode = <<0>>
      /\ version_facts = ScenarioFacts )
    => /\ result.kind = "exit_json"
       /\ result.changed
       /\ "module_facts" \in result.keys
       /\ \A k \in FactKeys : result.module_facts[k] = ScenarioFacts[k]

\* C4: in check mode no external process is launched and the filesystem stays
\* as it was, for install and for uninstall, in every environment.
C4_DryRunFrame ==
    (pc # "idle" /\ params.check_mode) => (launched = <<>> /\ fs = fs0)

C4_Witness ==
    /\ pc = "done"
    /\ params.check_mode
    /\ params.state = "present"
    /\ fs.dest
    /\ fs.imcl
    /\ ~fs.logdir

\* C5: a check-mode uninstall ends with a success result with changed=false
\* and a message naming dest.
C5_DryRunUninstallResult ==
    (pc = "done" /\ params.check_mode /\ params.state = "absent")
    => /\ result.kind = "exit_json"
       /\ ~result.changed
       /\ DestPath \in Range(result.msg)

\* The install reached its check of src and src was missing.
MissingSrcChecked ==
    /\ Finished("present")
    /\ probe = "not_installed"
    /\ ~fs0.src

FailedNamingSrc ==
    /\ result.kind = "fail_json"
    /\ SrcPath \in Range(result.msg)

\* C6 as stated: a non-dry-run install that reaches the check of a missing src
\* fails naming src, having launched no external process at all, whether or
\* not dest exists.
C6_MissingSrcNoProcess ==
    MissingSrcChecked => (FailedNamingSrc /\ launched = <<>>)

\* C6 as amended: it fails naming src without launching the installer; the
\* only process launched is the version query of the probe, exactly when dest
\* exists.
C6_MissingSrcNoInstaller ==
    MissingSrcChecked
    => /\ FailedNamingSrc
       /\ launched = IF fs0.dest THEN <<"version">> ELSE <<>>

C6_Witness ==
    /\ MissingSrcChecked
    /\ fs0.dest
    /\ launched = <<"version">>
    /\ result.kind = "fail_json"

\* C7: a non-dry-run uninstall on an existing dest without
\* <dest>/eclipse/tools/imcl ends with a failure result naming that path and
\* never launches the uninstaller.
C7_MissingUninstallerFails ==
    (Finished("absent") /\ fs0.dest /\ ~fs0.imcl)
    => /\ result.kind = "fail_json"
       /\ SubSeq(result.msg, 1, Len(imcl_command)) = imcl_command
       /\ Launches({"uninstall"}) = {}

\* C8: whenever the output of the version query has a header line containing
\* "installed", the probe reports installed, whichever of the Version,
\* Internal Version and Architecture lines are present.
C8_HeaderAloneDecides ==
    LET header == SearchRestOfLine(HeaderPrefix, stdout_value)
    IN  ( /\ ProbedText(stdout_value)
          /\ header.matched
          /\ Contains(header.group, InstalledWord) )
        => probe = "installed"

\* C9 as stated: at most one version query and at most one install/uninstall
\* launch per invocation, the query of the probe (launched when dest exists)
\* before the install/uninstall; the version query never runs twice.
C9_OneProbeOneAction ==
    /\ Cardinality(Launches({"version"})) <= 1
    /\ Cardinality(Launches(Actions)) <= 1
    /\ (fs0.dest /\ Launches(Actions) # {}) => launched[1] = "version"

\* C9 as amended: at most one install/uninstall launch, at most one version
\* query before it, and at most one after it, which only an installer that
\* exited 0 is followed by.
C9_OneProbeOneActionOneRequery ==
    LET acts    == Launches(Actions)
        queries == Launches({"version"})
        before  == {i \in queries : \A j \in acts : i < j}
        after   == queries \ before
    IN  /\ Cardinality(acts) <= 1
        /\ Cardinality(before) <= 1
        /\ Cardinality(after) <= 1
        /\ after # {} => /\ \A j \in acts : launched[j] = "install"
                         /\ returncode = <<0>>
                         /\ pc = "done"
        /\ Len(launched) <= 3

C9_Witness ==
    /\ pc = "done"
    /\ launched = <<"version", "install", "version">>
    /\ result.changed

\* C10: a non-dry-run install of a product that is not installed, with src
\* present, gets to launch the installer with the log directory in place,
\* whether or not the log directory existed, and no exception ends it.
C10_LogdirCreatedOrKept ==
    (Finished("present") /\ probe = "not_installed" /\ fs0.src)
    => /\ result.kind # "exception"
       /\ Launches({"install"}) # {}
       /\ fs.logdir

====
